---- MODULE Spec2Model ----
(***************************************************************************)
(* Model of bulk_extractor.py: the input reader read_websites_from_file,   *)
(* the main script (empty-list exit, browser and CsvSaver construction),   *)
(* and the per-website loop with its try / except / inner try structure.   *)
(*                                                                         *)
(* Text is modelled as a sequence of one-character strings, so that        *)
(* strip(), startswith(), the f-strings and the [0:200] slice are computed *)
(* character by character.                                                 *)
(*                                                                         *)
(* The extraction library (Factory, DefaultWorker, get_data, CsvSaver) is  *)
(* outside the repository.  Each call to it either returns or raises an    *)
(* instance of Exception; a save call that raises at one of its rows has   *)
(* already written the rows before it (the csv writer emits row by row     *)
(* into a file opened in append mode).                                     *)
(***************************************************************************)
EXTENDS Integers, Sequences, FiniteSets, TLC

VARIABLES
    inputExists,            \* Path(INPUT_FILE).is_file()
    f,                      \* the lines the file object f of line 34 yields; none once
                            \* the with block has closed it
    pc,                     \* position of the script
    lineNo,                 \* index of the next line the reader's loop takes
    websites,               \* local list of read_websites_from_file
    websites_to_crawl,      \* module-level list, line 54
    exit_status,            \* {} while running, {code} after sys.exit(code)
    browser,                \* 0 before Browser() is constructed, its identity after
    data_saver,             \* the CsvSaver configuration, line 63
    csv,                    \* the data rows of OUTPUT_FILE, in file order
    i,                      \* enumerate index of the main loop (from 1)
    data_found_for_website, \* the flag of line 76
    raw_data,               \* value returned by worker.get_data()
    exc,                    \* the exception bound as e in the except clause
    \* history variables (what was called, in order)
    csvOrigin,              \* for each row of csv: the website index and kind of save that wrote it
    factoryCalls,           \* arguments of every Factory(...) call
    workerCalls,            \* website index of every DefaultWorker(factory) call
    getDataCalls,           \* every worker.get_data() call: website index, raised, rows returned
    saveCalls,              \* every data_saver.save(...) call: website index, kind, rows, raised
    raisedLog,              \* every exception caught by the outer except: website index, exception
    iterations              \* number of loop bodies entered

vars == <<inputExists, f, pc, lineNo, websites, websites_to_crawl,
          exit_status, browser, data_saver, csv, i, data_found_for_website,
          raw_data, exc, csvOrigin, factoryCalls, workerCalls, getDataCalls,
          saveCalls, raisedLog, iterations>>

----------------------------------------------------------------------------
(* Bounds of the model *)

MaxLines == 2

MaxResults == 2

----------------------------------------------------------------------------
(* Configuration, lines 12-21 *)

CRAWL_DEPTH == 10

MAX_LINKS_PER_PAGE == 1

ERROR_LIMIT == 200

HTTP == <<"h", "t", "t", "p">>

HTTPS == <<"h", "t", "t", "p", "s">>

DEFAULT_SCHEME == HTTPS

CSV_HEADERS == <<"page", "email", "website">>

ERROR_PAGE ==
    <<"E", "R", "R", "O", "R", "_", "D", "U", "R", "I", "N", "G", "_",
      "P", "R", "O", "C", "E", "S", "S", "I", "N", "G">>

----------------------------------------------------------------------------
(* Text helpers: str.strip, str.startswith, str.lower, urlparse(...).scheme *)

Whitespace == {" ", "\t", "\n", "\r"}

UpperLetters ==
    <<"A", "B", "C", "D", "E", "F", "G", "H", "I", "J", "K", "L", "M",
      "N", "O", "P", "Q", "R", "S", "T", "U", "V", "W", "X", "Y", "Z">>

LowerLetters ==
    <<"a", "b", "c", "d", "e", "f", "g", "h", "i", "j", "k", "l", "m",
      "n", "o", "p", "q", "r", "s", "t", "u", "v", "w", "x", "y", "z">>

Digits == {"0", "1", "2", "3", "4", "5", "6", "7", "8", "9"}

Range(s) == {s[k] : k \in 1..Len(s)}

IsAlpha(c) == c \in Range(UpperLetters) \cup Range(LowerLetters)

\* urllib.parse.scheme_chars
SchemeChars == Range(UpperLetters) \cup Range(LowerLetters) \cup Digits \cup {"+", "-", "."}

LowerChar(c) ==
    IF c \in Range(UpperLetters)
    THEN LowerLetters[CHOOSE k \in 1..Len(UpperLetters) : UpperLetters[k] = c]
    ELSE c

lower(s) == [k \in 1..Len(s) |-> LowerChar(s[k])]

RECURSIVE lstrip(_)
lstrip(s) ==
    IF s # <<>> /\ Head(s) \in Whitespace THEN lstrip(Tail(s)) ELSE s

RECURSIVE rstrip(_)
rstrip(s) ==
    IF s # <<>> /\ s[Len(s)] \in Whitespace THEN rstrip(SubSeq(s, 1, Len(s) - 1)) ELSE s

strip(s) == rstrip(lstrip(s))

startswith(s, p) == Len(s) >= Len(p) /\ SubSeq(s, 1, Len(p)) = p

\* str.find(c), 1-based; 0 when c does not occur
Find(s, c) ==
    IF c \in Range(s) THEN CHOOSE k \in 1..Len(s) : s[k] = c /\ \A j \in 1..(k - 1) : s[j] # c
    ELSE 0

NotUnsafe(c) == c \notin {"\t", "\r", "\n"}

\* urlparse(url).scheme: leading blanks dropped, tab/CR/LF removed, then the text
\* before the first ':' when it starts with a letter and holds scheme characters
\* only, lower-cased; otherwise the empty scheme.
urlparse_scheme(url) ==
    LET u == SelectSeq(lstrip(url), NotUnsafe)
        p == Find(u, ":")
    IN  IF p > 1 /\ IsAlpha(u[1]) /\ \A k \in 1..(p - 1) : u[k] \in SchemeChars
        THEN lower(SubSeq(u, 1, p - 1))
        ELSE <<>>

\* Python's s[0:n]
Slice0(s, n) == SubSeq(s, 1, IF Len(s) < n THEN Len(s) ELSE n)

----------------------------------------------------------------------------
(* Inputs *)

\* Sample lines of the input file.
Lines ==
    { <<"\n">>,                                                   \* blank
      <<" ", "\t", "\n">>,                                        \* blank after stripping
      <<"#", "a", "\n">>,                                         \* comment
      <<" ", "#", "c", "\n">>,                                    \* comment after stripping
      <<"f", "t", "p", ":", "/", "/", "a", "\n">>,                \* unsupported scheme
      <<"a", ":", "b">>,                                          \* unsupported scheme "a"
      <<" ", "a", " ", "\n">>,                                    \* no scheme
      <<"h", "t", "t", "p", "s", ":", "/", "/", "a", "\n">>,      \* scheme https
      <<"H", "T", "T", "P", ":", "/", "/", "b", "\n">>,           \* scheme http, upper case
      <<"\t", "H", "T", "T", "P", ":", "/", "/", "b">> }          \* the same, no line end

Files == UNION {[1..n -> Lines] : n \in 0..MaxLines}

\* The run appends to an OUTPUT_FILE that holds a row of an earlier run.
OldRow == [page |-> <<"o">>, email |-> <<"o">>, website |-> <<"o">>]

NoExc == [tname |-> <<>>, msg |-> <<>>]

\* An exception whose text is longer than the slice of line 122 keeps.
FactoryError ==
    [tname |-> <<"V", "a", "l", "u", "e", "E", "r", "r", "o", "r">>,
     msg |-> [k \in 1..ERROR_LIMIT |-> "m"]]

WorkerError == [tname |-> <<"T", "y", "p", "e", "E", "r", "r", "o", "r">>, msg |-> <<>>]

GetDataError == [tname |-> <<"T", "i", "m", "e", "o", "u", "t">>, msg |-> <<"t">>]

SaveError == [tname |-> <<"O", "S", "E", "r", "r", "o", "r">>, msg |-> <<"x">>]

\* What Factory(...), DefaultWorker(...), get_data() and save(...) may raise.
FactoryErrors == {FactoryError}

WorkerErrors == {WorkerError}

GetDataErrors == {GetDataError}

SaveErrors == {SaveError}

\* n result objects, as worker.get_data() returns them for a website.
PageData(website, n) ==
    [j \in 1..n |->
        [page |-> website,
         email |-> IF j % 2 = 1 THEN <<"e">> ELSE <<>>,
         website |-> website]]

----------------------------------------------------------------------------
(* The CSV saver *)

IsPrefix(s, t) == Len(s) <= Len(t) /\ SubSeq(t, 1, Len(s)) = s

\* Faulty variant of Write: the saver's default save_mode "w", which replaces the
\* content of the file at every save.
Write_truncating(file, rows) == rows

\* How a save call changes the rows of the output file: save_mode "a" appends.
Write(file, rows) == IF data_saver.save_mode = "a" THEN file \o rows ELSE rows

\* The outcomes of data_saver.save(rows): it returns with every row written, or it
\* raises at one of the rows, with the rows before that one written.
CsvSaver_save(rows) ==
    {[written |-> rows, raised |-> FALSE, exc |-> NoExc]}
    \cup {[written |-> SubSeq(rows, 1, k - 1), raised |-> TRUE, exc |-> e] :
            k \in 1..Len(rows), e \in SaveErrors}

Tags(rows, site, kind) == [k \in 1..Len(rows) |-> [site |-> site, kind |-> kind]]

\* The bookkeeping of one save call made for website number site.
RecordSave(site, kind, rows, o) ==
    /\ csv' = Write(csv, o.written)
    /\ csvOrigin' = Write(csvOrigin, Tags(o.written, site, kind))
    /\ saveCalls' = Append(saveCalls,
                           [site |-> site, kind |-> kind, rows |-> rows, raised |-> o.raised])

----------------------------------------------------------------------------
(* read_websites_from_file, lines 25-50 *)

Init ==
    /\ inputExists \in BOOLEAN
    /\ f \in (IF inputExists THEN Files ELSE {<<>>})
    /\ pc = "start"
    /\ lineNo = 1
    /\ websites = <<>>
    /\ websites_to_crawl = <<>>
    /\ exit_status = {}
    /\ browser = 0
    /\ data_saver = [save_mode |-> "", headers |-> <<>>]
    /\ csv = <<OldRow>>
    /\ csvOrigin = Tags(csv, 0, "old")
    /\ i = 0
    /\ data_found_for_website = FALSE
    /\ raw_data = <<>>
    /\ exc = NoExc
    /\ factoryCalls = <<>>
    /\ workerCalls = <<>>
    /\ getDataCalls = <<>>
    /\ saveCalls = <<>>
    /\ raisedLog = <<>>
    /\ iterations = 0

\* Faulty variant of OpenInput: a missing file ends the program with status 0.
OpenInput_exit0 ==
    /\ pc = "start"
    /\ IF ~inputExists
       THEN pc' = "exit" /\ exit_status' = {0}
       ELSE pc' = "reading" /\ UNCHANGED exit_status
    /\ websites' = <<>>
    /\ lineNo' = 1
    /\ UNCHANGED <<inputExists, f, websites_to_crawl, browser, data_saver, csv,
                   i, data_found_for_website, raw_data, exc, csvOrigin, factoryCalls,
                   workerCalls, getDataCalls, saveCalls, raisedLog, iterations>>

\* Lines 27-33: the call of line 54 enters the reader; a missing file exits with 1.
OpenInput ==
    /\ pc = "start"
    /\ IF ~inputExists
       THEN pc' = "exit" /\ exit_status' = {1}
       ELSE pc' = "reading" /\ UNCHANGED exit_status
    /\ websites' = <<>>
    /\ lineNo' = 1
    /\ UNCHANGED <<inputExists, f, websites_to_crawl, browser, data_saver, csv,
                   i, data_found_for_website, raw_data, exc, csvOrigin, factoryCalls,
                   workerCalls, getDataCalls, saveCalls, raisedLog, iterations>>

\* Faulty variant of ReadLine: the test of lines 44-46 is missing, so a line with
\* any scheme is kept.
ReadLine_anyScheme ==
    /\ pc = "reading"
    /\ lineNo <= Len(f)
    /\ LET line == f[lineNo]
           url == strip(line)
       IN  IF url = <<>> \/ startswith(url, <<"#">>)
           THEN websites' = websites
           ELSE IF urlparse_scheme(url) = <<>>
                THEN websites' = Append(websites, DEFAULT_SCHEME \o <<":", "/", "/">> \o url)
                ELSE websites' = Append(websites, url)
    /\ lineNo' = lineNo + 1
    /\ UNCHANGED <<inputExists, f, pc, websites_to_crawl, exit_status, browser,
                   data_saver, csv, i, data_found_for_website, raw_data, exc, csvOrigin,
                   factoryCalls, workerCalls, getDataCalls, saveCalls, raisedLog, iterations>>

\* Lines 35-48: one pass of "for line in f".
ReadLine ==
    /\ pc = "reading"
    /\ lineNo <= Len(f)
    /\ LET line == f[lineNo]
           url == strip(line)
       IN  IF url = <<>> \/ startswith(url, <<"#">>)
           THEN websites' = websites
           ELSE IF urlparse_scheme(url) = <<>>
                THEN websites' = Append(websites, DEFAULT_SCHEME \o <<":", "/", "/">> \o url)
                ELSE IF urlparse_scheme(url) \notin {HTTP, HTTPS}
                     THEN websites' = websites
                     ELSE websites' = Append(websites, url)
    /\ lineNo' = lineNo + 1
    /\ UNCHANGED <<inputExists, f, pc, websites_to_crawl, exit_status, browser,
                   data_saver, csv, i, data_found_for_website, raw_data, exc, csvOrigin,
                   factoryCalls, workerCalls, getDataCalls, saveCalls, raisedLog, iterations>>

\* Lines 49-50 and 54: the reader returns its list.
ReadReturn ==
    /\ pc = "reading"
    /\ lineNo > Len(f)
    /\ websites_to_crawl' = websites
    /\ f' = <<>>
    /\ pc' = "main"
    /\ UNCHANGED <<inputExists, lineNo, websites, exit_status, browser,
                   data_saver, csv, i, data_found_for_website, raw_data, exc, csvOrigin,
                   factoryCalls, workerCalls, getDataCalls, saveCalls, raisedLog, iterations>>

----------------------------------------------------------------------------
(* Main script, lines 54-135 *)

\* Lines 56-58.
ExitNoWebsites ==
    /\ pc = "main"
    /\ websites_to_crawl = <<>>
    /\ pc' = "exit"
    /\ exit_status' = {0}
    /\ UNCHANGED <<inputExists, f, lineNo, websites, websites_to_crawl, browser,
                   data_saver, csv, i, data_found_for_website, raw_data, exc, csvOrigin,
                   factoryCalls, workerCalls, getDataCalls, saveCalls, raisedLog, iterations>>

\* Lines 60-74: Browser(), CsvSaver(...), and the loop is entered.
Setup ==
    /\ pc = "main"
    /\ websites_to_crawl # <<>>
    /\ browser' = 1
    /\ data_saver' = [save_mode |-> "a", headers |-> CSV_HEADERS]
    /\ i' = 1
    /\ pc' = "loop"
    /\ UNCHANGED <<inputExists, f, lineNo, websites, websites_to_crawl,
                   exit_status, csv, data_found_for_website, raw_data, exc, csvOrigin,
                   factoryCalls, workerCalls, getDataCalls, saveCalls, raisedLog, iterations>>

\* Lines 74-76: the loop takes its next website.
LoopNext ==
    /\ pc = "loop"
    /\ i <= Len(websites_to_crawl)
    /\ data_found_for_website' = FALSE
    /\ iterations' = iterations + 1
    /\ pc' = "factory"
    /\ UNCHANGED <<inputExists, f, lineNo, websites, websites_to_crawl,
                   exit_status, browser, data_saver, csv, i, raw_data, exc, csvOrigin,
                   factoryCalls, workerCalls, getDataCalls, saveCalls, raisedLog>>

\* Line 135: the list is exhausted.
LoopEnd ==
    /\ pc = "loop"
    /\ i > Len(websites_to_crawl)
    /\ pc' = "done"
    /\ UNCHANGED <<inputExists, f, lineNo, websites, websites_to_crawl,
                   exit_status, browser, data_saver, csv, i, data_found_for_website,
                   raw_data, exc, csvOrigin, factoryCalls, workerCalls, getDataCalls,
                   saveCalls, raisedLog, iterations>>

website == websites_to_crawl[i]

\* Line 114: an exception raised inside the try block is bound to e.
Raise(e) ==
    /\ exc' = e
    /\ raisedLog' = Append(raisedLog, [site |-> i, exc |-> e])
    /\ pc' = "handler"

\* Faulty variant of FactoryArgs: the depth tmp.py passes.
FactoryArgs_depth5(w) ==
    [website_url |-> w, browser |-> browser, depth |-> 5,
     max_links_from_page |-> MAX_LINKS_PER_PAGE]

\* Lines 78-83: the keyword arguments of the Factory call.
FactoryArgs(w) ==
    [website_url |-> w, browser |-> browser, depth |-> CRAWL_DEPTH,
     max_links_from_page |-> MAX_LINKS_PER_PAGE]

\* Lines 78-83.
CallFactory ==
    /\ pc = "factory"
    /\ factoryCalls' = Append(factoryCalls, FactoryArgs(website))
    /\ \/ pc' = "worker" /\ UNCHANGED <<exc, raisedLog>>
       \/ \E e \in FactoryErrors : Raise(e)
    /\ UNCHANGED <<inputExists, f, lineNo, websites, websites_to_crawl,
                   exit_status, browser, data_saver, csv, i, data_found_for_website,
                   raw_data, csvOrigin, workerCalls, getDataCalls, saveCalls, iterations>>

\* Line 84.
CallWorker ==
    /\ pc = "worker"
    /\ workerCalls' = Append(workerCalls, i)
    /\ \/ pc' = "get_data" /\ UNCHANGED <<exc, raisedLog>>
       \/ \E e \in WorkerErrors : Raise(e)
    /\ UNCHANGED <<inputExists, f, lineNo, websites, websites_to_crawl,
                   exit_status, browser, data_saver, csv, i, data_found_for_website,
                   raw_data, csvOrigin, factoryCalls, getDataCalls, saveCalls, iterations>>

\* Line 86.
CallGetData ==
    /\ pc = "get_data"
    /\ \/ \E n \in 0..MaxResults :
            /\ raw_data' = PageData(website, n)
            /\ getDataCalls' = Append(getDataCalls,
                                      [site |-> i, raised |-> FALSE, data |-> raw_data'])
            /\ pc' = "branch"
            /\ UNCHANGED <<exc, raisedLog>>
       \/ \E e \in GetDataErrors :
            /\ Raise(e)
            /\ getDataCalls' = Append(getDataCalls,
                                      [site |-> i, raised |-> TRUE, data |-> <<>>])
            /\ UNCHANGED raw_data
    /\ UNCHANGED <<inputExists, f, lineNo, websites, websites_to_crawl,
                   exit_status, browser, data_saver, csv, i, data_found_for_website,
                   csvOrigin, factoryCalls, workerCalls, saveCalls, iterations>>

\* Lines 96-97 and 111-112: the save returned; the body ends and the loop advances.
Saved ==
    /\ data_found_for_website' = TRUE
    /\ i' = i + 1
    /\ pc' = "loop"
    /\ UNCHANGED <<exc, raisedLog>>

\* Faulty variant of SaveData: the else of line 99 is missing, so the placeholder
\* row is saved after the result rows as well.
SaveData_thenPlaceholder ==
    /\ pc = "branch"
    /\ raw_data # <<>>
    /\ csv' = Write(csv, raw_data \o <<[page |-> website, email |-> <<>>, website |-> website]>>)
    /\ csvOrigin' = Write(csvOrigin, Tags(raw_data, i, "data") \o Tags(<<1>>, i, "placeholder"))
    /\ saveCalls' = Append(saveCalls,
                           [site |-> i, kind |-> "data", rows |-> raw_data, raised |-> FALSE])
    /\ Saved
    /\ UNCHANGED <<inputExists, f, lineNo, websites, websites_to_crawl,
                   exit_status, browser, data_saver, raw_data, factoryCalls,
                   workerCalls, getDataCalls, iterations>>

\* Lines 88-97: the worker returned rows.
SaveData ==
    /\ pc = "branch"
    /\ raw_data # <<>>
    /\ \E o \in CsvSaver_save(raw_data) :
            /\ RecordSave(i, "data", raw_data, o)
            /\ IF o.raised
               THEN Raise(o.exc) /\ UNCHANGED <<i, data_found_for_website>>
               ELSE Saved
    /\ UNCHANGED <<inputExists, f, lineNo, websites, websites_to_crawl,
                   exit_status, browser, data_saver, raw_data, factoryCalls,
                   workerCalls, getDataCalls, iterations>>

\* Lines 105-109.
placeholder_data(w) == <<[page |-> w, email |-> <<>>, website |-> w]>>

\* Faulty variant of SavePlaceholder: the empty list is saved as it is, the way
\* tmp.py saves whatever get_data returned.
SavePlaceholder_savesEmptyList ==
    /\ pc = "branch"
    /\ raw_data = <<>>
    /\ \E o \in CsvSaver_save(raw_data) :
            /\ RecordSave(i, "data", raw_data, o)
            /\ IF o.raised
               THEN Raise(o.exc) /\ UNCHANGED <<i, data_found_for_website>>
               ELSE Saved
    /\ UNCHANGED <<inputExists, f, lineNo, websites, websites_to_crawl,
                   exit_status, browser, data_saver, raw_data, factoryCalls,
                   workerCalls, getDataCalls, iterations>>

\* Lines 99-112: the worker returned nothing.
SavePlaceholder ==
    /\ pc = "branch"
    /\ raw_data = <<>>
    /\ \E o \in CsvSaver_save(placeholder_data(website)) :
            /\ RecordSave(i, "placeholder", placeholder_data(website), o)
            /\ IF o.raised
               THEN Raise(o.exc) /\ UNCHANGED <<i, data_found_for_website>>
               ELSE Saved
    /\ UNCHANGED <<inputExists, f, lineNo, websites, websites_to_crawl,
                   exit_status, browser, data_saver, raw_data, factoryCalls,
                   workerCalls, getDataCalls, iterations>>

\* f'ERROR: {type(e).__name__}: {str(e)}'
ErrorText(e) == <<"E", "R", "R", "O", "R", ":", " ">> \o e.tname \o <<":", " ">> \o e.msg

\* Faulty variant of error_placeholder: the [0:200] slice is missing.
error_placeholder_uncut(e, w) ==
    <<[page |-> ERROR_PAGE, email |-> ErrorText(e), website |-> w]>>

\* Lines 119-124.
error_placeholder(e, w) ==
    <<[page |-> ERROR_PAGE, email |-> Slice0(ErrorText(e), ERROR_LIMIT), website |-> w]>>

\* Faulty variant of Handler: the except clause saves no error row.
Handler_noErrorRow ==
    /\ pc = "handler"
    /\ exc' = NoExc
    /\ i' = i + 1
    /\ pc' = "loop"
    /\ UNCHANGED <<inputExists, f, lineNo, websites, websites_to_crawl,
                   exit_status, browser, data_saver, csv, data_found_for_website,
                   raw_data, csvOrigin, factoryCalls, workerCalls, getDataCalls,
                   saveCalls, raisedLog, iterations>>

\* Faulty variant of Handler: the inner try of lines 117-131 is missing, so an
\* exception of the error-row save ends the program with a traceback (status 1).
Handler_unprotectedSave ==
    /\ pc = "handler"
    /\ \E o \in CsvSaver_save(error_placeholder(exc, website)) :
            /\ RecordSave(i, "error", error_placeholder(exc, website), o)
            /\ IF o.raised
               THEN /\ pc' = "exit"
                    /\ exit_status' = {1}
                    /\ UNCHANGED <<i, data_found_for_website, exc>>
               ELSE /\ pc' = "loop"
                    /\ i' = i + 1
                    /\ data_found_for_website' = TRUE
                    /\ exc' = NoExc
                    /\ UNCHANGED exit_status
    /\ UNCHANGED <<inputExists, f, lineNo, websites, websites_to_crawl,
                   browser, data_saver, raw_data, factoryCalls,
                   workerCalls, getDataCalls, raisedLog, iterations>>

\* Faulty variant of Handler: break instead of the continue of line 132.
Handler_break ==
    /\ pc = "handler"
    /\ \E o \in CsvSaver_save(error_placeholder(exc, website)) :
            /\ RecordSave(i, "error", error_placeholder(exc, website), o)
            /\ data_found_for_website' = (IF o.raised THEN data_found_for_website ELSE TRUE)
    /\ exc' = NoExc
    /\ pc' = "done"
    /\ UNCHANGED <<inputExists, f, lineNo, websites, websites_to_crawl, i,
                   exit_status, browser, data_saver, raw_data, factoryCalls,
                   workerCalls, getDataCalls, raisedLog, iterations>>

\* Lines 114-132: the except clause; a failure of the inner save is only logged,
\* and "continue" takes the loop to the next website.
Handler ==
    /\ pc = "handler"
    /\ \E o \in CsvSaver_save(error_placeholder(exc, website)) :
            /\ RecordSave(i, "error", error_placeholder(exc, website), o)
            /\ data_found_for_website' = (IF o.raised THEN data_found_for_website ELSE TRUE)
    /\ exc' = NoExc
    /\ i' = i + 1
    /\ pc' = "loop"
    /\ UNCHANGED <<inputExists, f, lineNo, websites, websites_to_crawl,
                   exit_status, browser, data_saver, raw_data, factoryCalls,
                   workerCalls, getDataCalls, raisedLog, iterations>>

Next ==
    \/ OpenInput
    \/ ReadLine
    \/ ReadReturn
    \/ ExitNoWebsites
    \/ Setup
    \/ LoopNext
    \/ LoopEnd
    \/ CallFactory
    \/ CallWorker
    \/ CallGetData
    \/ SaveData
    \/ SavePlaceholder
    \/ Handler

Spec == Init /\ [][Next]_vars

\* Every call of the collaborator returns or raises, and the interpreter keeps
\* running the script: some enabled step is eventually taken.
FairSpec == Spec /\ WF_vars(Next)

----------------------------------------------------------------------------
(* Vocabulary of the properties *)

N == Len(websites_to_crawl)

Sites == 1..N

\* The rows of the output file written on behalf of website k, by kind.
RowsOf(k, kinds) ==
    {r \in 1..Len(csvOrigin) : csvOrigin[r].site = k /\ csvOrigin[r].kind \in kinds}

\* The save calls made on behalf of website k, by kind.
SavesOf(k, kinds) ==
    {c \in 1..Len(saveCalls) : saveCalls[c].site = k /\ saveCalls[c].kind \in kinds}

RaisedOf(k) == {r \in 1..Len(raisedLog) : raisedLog[r].site = k}

AllKinds == {"data", "placeholder", "error"}

\* Website k has been left behind by the loop.
Finished(k) == k < i

\* The reader is at its return statement.
AtReturn == pc = "reading" /\ lineNo > Len(f)

----------------------------------------------------------------------------
(* C1 *)

\* The first and last positions of a line that hold no whitespace.
Inner(line) == {k \in 1..Len(line) : line[k] \notin Whitespace}

Stripped(line) ==
    IF Inner(line) = {} THEN <<>>
    ELSE SubSeq(line, CHOOSE a \in Inner(line) : \A b \in Inner(line) : a <= b,
                      CHOOSE a \in Inner(line) : \A b \in Inner(line) : a >= b)

Contributes(line) ==
    /\ Stripped(line) # <<>>
    /\ Stripped(line)[1] # "#"
    /\ urlparse_scheme(Stripped(line)) \in {<<>>, <<"h", "t", "t", "p">>, <<"h", "t", "t", "p", "s">>}

EntryOf(line) ==
    IF urlparse_scheme(Stripped(line)) = <<>>
    THEN <<"h", "t", "t", "p", "s", ":", "/", "/">> \o Stripped(line)
    ELSE Stripped(line)

\* C1: the list read_websites_from_file returns holds, in input-line order, exactly
\* one entry for every line that after stripping is non-empty, is no comment and has
\* no scheme ('https://' + the stripped line) or scheme http or https (the stripped
\* line unchanged), and nothing else.
C1_ReaderContract ==
    AtReturn =>
        LET kept == SelectSeq(f, Contributes)
        IN  websites = [k \in 1..Len(kept) |-> EntryOf(kept[k])]

\* A file of MaxLines lines has been read: a line without scheme was prefixed and
\* another line was dropped.
C1_Witness ==
    /\ AtReturn
    /\ Len(f) = MaxLines
    /\ Len(websites) = 1
    /\ websites[1] = <<"h", "t", "t", "p", "s", ":", "/", "/", "a">>
    /\ \E k \in 1..Len(f) : urlparse_scheme(strip(f[k])) = <<"f", "t", "p">>

----------------------------------------------------------------------------
(* C8 *)

NothingDone ==
    /\ factoryCalls = <<>>
    /\ workerCalls = <<>>
    /\ getDataCalls = <<>>
    /\ saveCalls = <<>>
    /\ \A r \in 1..Len(csvOrigin) : csvOrigin[r].kind = "old"
    /\ Len(csv) = Len(csvOrigin)
    /\ Len(csv) <= 1

\* C8: extraction calls and CSV writes happen only after the reader returned a
\* non-empty list; a missing input file ends the program with status 1, a file
\* without valid website with status 0, both with no extraction call and no write.
C8_NothingBeforeWebsites ==
    /\ ~NothingDone => (inputExists /\ websites_to_crawl # <<>> /\ exit_status = {}
                        /\ pc \notin {"start", "reading", "main", "exit"})
    /\ (~inputExists /\ pc # "start") => (pc = "exit" /\ exit_status = {1})
    /\ (inputExists /\ websites_to_crawl = <<>> /\ pc \notin {"start", "reading", "main"})
          => (pc = "exit" /\ exit_status = {0})
    /\ pc = "exit" => NothingDone
    /\ exit_status # {} => pc = "exit"

\* The program has exited with status 0 after reading a file of MaxLines lines
\* none of which is a valid website, leaving the old row of the CSV file alone.
C8_Witness ==
    /\ pc = "exit"
    /\ exit_status = {0}
    /\ lineNo = MaxLines + 1
    /\ csv = <<OldRow>>

----------------------------------------------------------------------------
(* C2 *)

ErrorSaveRaised(k) == \E c \in SavesOf(k, {"error"}) : saveCalls[c].raised

\* C2 as stated: when the loop has finished, every website of the list has at
\* least one record in the CSV file written on its behalf.
C2_EveryWebsiteHasRecord ==
    pc = "done" => \A k \in Sites : RowsOf(k, AllKinds) # {}

\* C2, amended: when the loop has finished, every website has at least one record
\* written on its behalf (its result records, a placeholder record or an error
\* record), except possibly a website whose processing raised an exception and
\* whose error-record save raised as well.
C2_RecordUnlessErrorSaveRaised ==
    pc = "done" =>
        \A k \in Sites :
            \/ ErrorSaveRaised(k)
            \/ /\ RowsOf(k, AllKinds) # {}
               /\ RaisedOf(k) = {} =>
                    \E g \in 1..Len(getDataCalls) :
                        /\ getDataCalls[g].site = k
                        /\ IF getDataCalls[g].data = <<>>
                           THEN Cardinality(RowsOf(k, {"placeholder"})) = 1
                           ELSE Cardinality(RowsOf(k, {"data"})) = Len(getDataCalls[g].data)
               /\ RaisedOf(k) # {} => RowsOf(k, {"error"}) # {}

\* The loop has finished over two websites: one got its record, the other raised
\* and its error-record save raised too, leaving it without any record.
C2_Witness ==
    /\ pc = "done"
    /\ N = 2
    /\ RowsOf(1, AllKinds) # {}
    /\ ErrorSaveRaised(2)
    /\ RowsOf(2, AllKinds) = {}

----------------------------------------------------------------------------
(* C3 *)

NonDecreasingSites(origin) ==
    \A a, b \in 1..Len(origin) : a < b => origin[a].site <= origin[b].site

\* C3: the CSV output is append-only: in every step the rows already written stay
\* a prefix of the rows of the file, and the rows written for website i all come
\* before the rows written for website j whenever i is before j in the list.
C3_AppendOnly ==
    [][/\ IsPrefix(csv, csv')
       /\ IsPrefix(csvOrigin, csvOrigin')
       /\ Len(csv') = Len(csvOrigin')
       /\ NonDecreasingSites(csvOrigin')]_vars

\* A file that held a row of an earlier run now holds, after it, rows of the
\* first and of the second website.
C3_Witness ==
    /\ Len(csv) >= 3
    /\ csv[1] = OldRow
    /\ RowsOf(1, AllKinds) # {}
    /\ RowsOf(2, AllKinds) # {}

----------------------------------------------------------------------------
(* C4 *)

StrictlyIncreasing(s) == \A a, b \in 1..Len(s) : a < b => s[a] < s[b]

GetDataSites == [g \in 1..Len(getDataCalls) |-> getDataCalls[g].site]

----------------------------------------------------------------------------
(* C5 *)

\* C5: an exception raised while a website is processed, also when the save of
\* the error row raises too, never stops the loop: every raise is caught by the
\* except clause, the except clause always hands over to the next website, and the
\* loop ends only when the list is exhausted.
C5_ErrorsDoNotStopLoop ==
    [][/\ raisedLog' # raisedLog => (pc' = "handler" /\ i' = i)
       /\ pc = "handler" => (pc' = "loop" /\ i' = i + 1)
       /\ (pc = "loop" /\ i <= N) => (pc' = "factory" /\ i' = i)
       /\ pc' = "done" => (pc = "loop" /\ i > N)
       /\ pc \in {"loop", "factory", "worker", "get_data", "branch", "handler"}
             => (pc' # "exit" /\ exit_status' = {})]_vars

\* The second website is being processed although the first one raised and the
\* save of its error row raised as well.
C5_Witness ==
    /\ pc = "worker"
    /\ i = 2
    /\ RaisedOf(1) # {}
    /\ ErrorSaveRaised(1)

----------------------------------------------------------------------------
(* C6 *)

\* 'ERROR: <exception type name>: <exception message>', cut to 200 characters.
CutErrorText(e, email) ==
    /\ Len(email) <= 200
    /\ Len(email) = 9 + Len(e.tname) + Len(e.msg) \/ Len(email) = 200
    /\ IsPrefix(email, <<"E", "R", "R", "O", "R", ":", " ">> \o e.tname \o <<":", " ">> \o e.msg)

IsErrorRecordOf(row, k, e) ==
    /\ row.page = <<"E", "R", "R", "O", "R", "_", "D", "U", "R", "I", "N", "G", "_",
                    "P", "R", "O", "C", "E", "S", "S", "I", "N", "G">>
    /\ row.website = websites_to_crawl[k]
    /\ CutErrorText(e, row.email)

\* C6: for a website whose processing raised an exception e, exactly one save of
\* one error record is attempted, with page 'ERROR_DURING_PROCESSING', the website,
\* and the text 'ERROR: <type>: <message>' cut to 200 characters; for a website
\* that raised nothing no error record is saved or written.
C6_ErrorRecord ==
    /\ \A k \in Sites :
          /\ Cardinality(RaisedOf(k)) <= 1
          /\ Cardinality(SavesOf(k, {"error"})) =
                (IF RaisedOf(k) # {} /\ Finished(k) THEN 1 ELSE 0)
          /\ RaisedOf(k) = {} => RowsOf(k, {"error"}) = {}
          /\ Cardinality(RowsOf(k, {"error"})) <= 1
    /\ \A c \in 1..Len(saveCalls) :
          saveCalls[c].kind = "error" =>
              /\ Len(saveCalls[c].rows) = 1
              /\ \E r \in RaisedOf(saveCalls[c].site) :
                    IsErrorRecordOf(saveCalls[c].rows[1], saveCalls[c].site, raisedLog[r].exc)
    /\ \A r \in 1..Len(csv) :
          csvOrigin[r].kind = "error" =>
              \E c \in SavesOf(csvOrigin[r].site, {"error"}) : <<csv[r]>> = saveCalls[c].rows

\* An error record is in the file whose text was cut: it is 200 characters long
\* and shorter than the text of the exception it reports.
C6_Witness ==
    \E r \in 1..Len(csv) :
        /\ csvOrigin[r].kind = "error"
        /\ Len(csv[r].email) = 200
        /\ \E x \in RaisedOf(csvOrigin[r].site) : Len(raisedLog[x].exc.msg) >= 200

----------------------------------------------------------------------------
(* C7 *)

\* The rows written for website k, in file order.
RowSeqOf(k) ==
    LET idx == RowsOf(k, AllKinds)
    IN  IF idx = {} THEN <<>>
        ELSE LET first == CHOOSE a \in idx : \A b \in idx : a <= b
             IN  [r \in 1..Cardinality(idx) |-> csv[first + r - 1]]

IsPlaceholderOf(rows, k) ==
    rows = <<[page |-> websites_to_crawl[k], email |-> <<>>, website |-> websites_to_crawl[k]]>>

\* C7: when get_data returned for a website, exactly one save call follows in the
\* try block: of one placeholder record (page and website the URL, email empty) when
\* nothing was returned, of exactly the returned list, and no placeholder, when
\* something was; and when that save returned, these are the rows written for the
\* website.
C7_PlaceholderOrData ==
    \A g \in 1..Len(getDataCalls) :
        LET k == getDataCalls[g].site
            data == getDataCalls[g].data
            tried == SavesOf(k, {"data", "placeholder"})
        IN  IF getDataCalls[g].raised \/ (k = i /\ pc = "branch")
            THEN tried = {}
            ELSE /\ Cardinality(tried) = 1
                 /\ \A c \in tried :
                       /\ saveCalls[c].kind = (IF data = <<>> THEN "placeholder" ELSE "data")
                       /\ IF data = <<>>
                          THEN IsPlaceholderOf(saveCalls[c].rows, k)
                          ELSE saveCalls[c].rows = data
                       /\ ~saveCalls[c].raised =>
                             /\ RaisedOf(k) = {}
                             /\ RowsOf(k, AllKinds) = RowsOf(k, {saveCalls[c].kind})
                             /\ RowSeqOf(k) = saveCalls[c].rows

\* The first website returned nothing and its placeholder was saved, the second
\* returned a list of two and the list was saved; the file holds these rows.
C7_Witness ==
    /\ Len(saveCalls) = 2
    /\ saveCalls[1].kind = "placeholder" /\ ~saveCalls[1].raised
    /\ saveCalls[2].kind = "data" /\ ~saveCalls[2].raised
    /\ Len(saveCalls[2].rows) = 2
    /\ RowSeqOf(1) = saveCalls[1].rows
    /\ RowSeqOf(2) = saveCalls[2].rows

----------------------------------------------------------------------------
(* C9 *)

KindsWritten(k) == {csvOrigin[r].kind : r \in RowsOf(k, AllKinds)}

\* C9 as stated: the rows written for a website are of at most one kind (result
\* rows, a placeholder row or an error row).
C9_OneKindPerWebsite ==
    \A k \in Sites : Cardinality(KindsWritten(k)) <= 1

\* C9, amended: result rows and a placeholder row are never both written for a
\* website, and an error row is written beside result or placeholder rows only
\* when the save call that wrote those rows raised an exception.
C9_OneKindUnlessSaveRaised ==
    \A k \in Sites :
        /\ ~({"data", "placeholder"} \subseteq KindsWritten(k))
        /\ Cardinality(KindsWritten(k)) > 1 =>
              /\ "error" \in KindsWritten(k)
              /\ \E c \in SavesOf(k, {"data", "placeholder"}) :
                    /\ saveCalls[c].raised
                    /\ saveCalls[c].kind \in KindsWritten(k)

\* A website has a result row and an error row: its save call raised after a row
\* was written, and the except clause then saved the error row.
C9_Witness ==
    \E k \in Sites :
        /\ KindsWritten(k) = {"data", "error"}
        /\ \E c \in SavesOf(k, {"data"}) : saveCalls[c].raised

----------------------------------------------------------------------------
(* C10 *)

\* C10: when every call of the collaborator returns or raises, the run ends: it
\* exits before the loop, or reaches the 'Processing finished' point having
\* entered the loop body once per website of the list.
C10_Terminates ==
    <>(pc = "exit" \/ (pc = "done" /\ iterations = N /\ i = N + 1))

\* The run has finished over MaxLines websites of which one raised and one did not.
C10_Witness ==
    /\ pc = "done"
    /\ iterations = MaxLines
    /\ Len(raisedLog) = 1
    /\ \E c \in 1..Len(saveCalls) : saveCalls[c].kind = "placeholder" /\ ~saveCalls[c].raised

====
